---- MODULE Spec2Model ----
(***************************************************************************)
(* Model of check_azure_resource.py: one run of the Nagios plugin          *)
(*   PLUGIN.activate(); PLUGIN.check_metric()                              *)
(* as a sequential state machine.  The command line and the answers of the *)
(* remote side (authentication, metric definitions endpoint, metrics       *)
(* endpoint) are the inputs.                                               *)
(*                                                                         *)
(* Python values are encoded as follows:                                   *)
(*   None            <<>>                                                  *)
(*   a value x       <<x>>          (so '' is <<"">> and differs from None)*)
(*   a str           a TLA+ string, or a sequence of one-character-like    *)
(*                   tokens where the code parses it (threshold specs)     *)
(*   a list          a sequence                                            *)
(*   a dict          a function from keys to values                        *)
(***************************************************************************)
EXTENDS Integers, Sequences, FiniteSets, TLC

VARIABLES
    args,                \* self[...]: the parsed command line options
    pc,                  \* position of the run in activate()/check_metric()
    metric_definitions,  \* self._metric_definitions
    metric_properties,   \* self._metric_properties
    calls,               \* network calls made so far, in order
    series,              \* metric_values of _get_metric_value (the time series list)
    value,               \* value of check_metric
    evaluated,           \* Plugins.check_threshold has been called
    perfdata,            \* perfdata added by add_perfdata
    result               \* how the process ended

vars == <<args, pc, metric_definitions, metric_properties, calls, series, value,
          evaluated, perfdata, result>>

----------------------------------------------------------------------------
(* Python's None / optional values *)

None == <<>>
Some(x) == <<x>>
Get(o) == o[1]

\* bool(x) for x None or a str: None and '' are falsy
Truthy(o) == o # None /\ Get(o) # ""

----------------------------------------------------------------------------
(* Bounds *)

\* longest 'data' list of a time series in a metrics response
MaxPoints == 2

----------------------------------------------------------------------------
(* Inputs: the command line *)

ValidResource == <<"subscriptions", "sub", "resourceGroups", "rg",
                   "providers", "Microsoft.Compute", "virtualMachines", "vm">>
Resources == { ValidResource,
               <<"subscriptions", "sub", "resourceGroups", "rg", "providers">> }

\* msrestazure.tools.is_valid_resource_id, by the resource-path grammar
is_valid_resource_id(rid) ==
    /\ Len(rid) >= 8
    /\ rid[1] = "subscriptions"
    /\ rid[3] = "resourceGroups"
    /\ rid[5] = "providers"

Metrics == {"Percentage CPU", "Disk IO", "Bogus"}
Dimensions == {None, Some(""), Some("Instance"), Some("Disk")}
DimensionValues == {None, Some(""), Some("0")}
Timeouts == {None, Some("30"), Some("-5"), Some("abc")}

\* Threshold specs, as the sequence of their tokens
Thresholds == { None,
                Some(<<"10">>),
                Some(<<"10", ":", "20">>),
                Some(<<"@", "10", ":", "20">>),
                Some(<<"~", ":", "20">>),
                Some(<<"10", ":">>) }

\* float(s): the number a numeral stands for; "abc" raises ValueError
Numerals == {"10", "20", "30", "-5"}
float(s) == CASE s = "10" -> 10
              [] s = "20" -> 20
              [] s = "30" -> 30
              [] s = "-5" -> 0 - 5

Args == [ resource : Resources,
          metric : Metrics,
          dimension : Dimensions,
          dimension_value : DimensionValues,
          warning : Thresholds,
          critical : Thresholds,
          timeout : Timeouts ]

----------------------------------------------------------------------------
(* Inputs: what the remote side answers *)

\* str.lower() on the strings the run lowers
lower(s) == CASE s = "Average" -> "average"
              [] s = "Total" -> "total"
              [] s = "Percent" -> "percent"
              [] s = "BytesPerSecond" -> "bytespersecond"
              [] OTHER -> s

CpuDefinition ==
    [ name |-> [value |-> "Percentage CPU", localizedValue |-> "CPU Percentage"],
      unit |-> "Percent",
      primaryAggregationType |-> "Average",
      isDimensionRequired |-> FALSE,
      dimensions |-> <<[value |-> "Instance"]>> ]

DiskDefinition ==
    [ name |-> [value |-> "Disk IO", localizedValue |-> "Disk IO rate"],
      unit |-> "BytesPerSecond",
      primaryAggregationType |-> "Total",
      isDimensionRequired |-> TRUE,
      dimensions |-> <<[value |-> "Disk"], [value |-> "Lun"]>> ]

Catalogs == { <<>>, <<CpuDefinition, DiskDefinition>> }

PointValues == {0 - 1, 9, 10, 20, 21}

EmptyPoint == [k \in {} |-> None]

\* A time series point: the aggregation kinds it carries, each a number or null
Points ==
    {EmptyPoint}
    \cup { [k \in {"average"} |-> None] }
    \cup { [k \in {"average"} |-> Some(v)] : v \in PointValues }
    \cup { [k \in {"total"} |-> Some(9)] }

SeqsUpTo(S, n) == UNION { [1..k -> S] : k \in 0..n }

DataLists == SeqsUpTo(Points, MaxPoints)

\* The 'timeseries' lists of a metrics response
TimeSeriesLists ==
    {<<>>}
    \cup { <<[data |-> d]>> : d \in DataLists }
    \cup { << [data |-> <<>>], [data |-> <<[k \in {"average"} |-> Some(21)]>>] >> }

ServerMessages == {"ResourceNotFound", "AuthorizationFailed"}

\* What client.send() gives: a response, or a raised transport failure
HttpError(status, msg) ==
    [kind |-> "response", status |-> status, json |-> FALSE, body |-> None,
     message |-> msg]
JsonBody(b) ==
    [kind |-> "response", status |-> 200, json |-> TRUE, body |-> Some(b),
     message |-> ""]
TextBody ==
    [kind |-> "response", status |-> 200, json |-> FALSE, body |-> None,
     message |-> ""]
TransportFailure ==
    [kind |-> "failure", status |-> 0, json |-> FALSE, body |-> None,
     message |-> "timeout"]

FailureResponses ==
    {TransportFailure, TextBody}
    \cup { HttpError(404, m) : m \in ServerMessages }

DefinitionsResponses ==
    FailureResponses \cup { JsonBody([value |-> c]) : c \in Catalogs }

MetricsResponses ==
    FailureResponses
    \cup { JsonBody([value |-> <<>>]) }
    \cup { JsonBody([value |-> <<[timeseries |-> t]>>]) : t \in TimeSeriesLists }

----------------------------------------------------------------------------
(* _call_arm_rest_api *)

CallOutcome(raised, message, isdict, dict) ==
    [raised |-> raised, message |-> message, isdict |-> isdict, dict |-> dict]

\* client.send() raises on a transport failure; raise_for_status() turns a
\* non-success status into CloudError(response); response.json() falls back
\* to response.text
_call_arm_rest_api(resp) ==
    IF resp.kind = "failure"
    THEN CallOutcome("ClientRequestError", resp.message, FALSE, None)
    ELSE IF resp.status >= 400 /\ resp.status < 600
    THEN CallOutcome("CloudError", resp.message, FALSE, None)
    ELSE IF resp.json
    THEN CallOutcome("", "", TRUE, resp.body)
    ELSE CallOutcome("", "", FALSE, None)

\* metrics['value'] of _get_metric_definitions: a str cannot be indexed by 'value'
_get_metric_definitions(resp) ==
    LET r == _call_arm_rest_api(resp) IN
    IF r.raised # "" THEN [raised |-> r.raised, message |-> r.message, list |-> <<>>]
    ELSE IF ~r.isdict THEN [raised |-> "TypeError", message |-> "", list |-> <<>>]
    ELSE [raised |-> "", message |-> "", list |-> Get(r.dict).value]

----------------------------------------------------------------------------
(* How a run ends *)

Running == [kind |-> "running", status |-> "", code |-> 0 - 1, message |-> <<>>]

\* pynag's status codes
ExitCode == [OK |-> 0, WARNING |-> 1, CRITICAL |-> 2, UNKNOWN |-> 3]

\* self.nagios_exit(status, message): prints the report and exits
nagios_exit(status, message) ==
    [kind |-> "report", status |-> status, code |-> ExitCode[status],
     message |-> message]

\* self.parser.error(message): prints the usage error and exits
parser_error(message) ==
    [kind |-> "usage", status |-> "", code |-> 2, message |-> message]

\* an exception nobody catches ends the process with a traceback
unhandled(exception) ==
    [kind |-> "fault", status |-> "", code |-> 1, message |-> <<exception>>]

\* variant: the server error reported as CRITICAL
cloud_error_exit_critical(message) == nagios_exit("CRITICAL", <<message>>)

\* except CloudError as ex: self.nagios_exit(Plugins.UNKNOWN, ex.message)
cloud_error_exit(message) == nagios_exit("UNKNOWN", <<message>>)

----------------------------------------------------------------------------
(* activate(): argument checks *)

\* float(self['timeout']) raises ValueError, or the timeout is negative
invalid_timeout(t) ==
    t # None /\ (Get(t) \notin Numerals \/ float(Get(t)) < 0)

dimension_mismatch(a) == Truthy(a.dimension) # Truthy(a.dimension_value)

\* the usage error of lines 100-117, or None
argument_error(a) ==
    IF ~is_valid_resource_id(a.resource)
    THEN Some(<<"invalid resource ID">>)
    ELSE IF dimension_mismatch(a)
    THEN Some(<<"--dimension and --dimension-value must be used together">>)
    ELSE IF invalid_timeout(a.timeout)
    THEN Some(<<"Invalid timeout">>)
    ELSE None

Activate ==
    /\ pc = "activate"
    /\ LET err == argument_error(args) IN
       IF err # None
       THEN /\ result' = parser_error(Get(err))
            /\ pc' = "done"
            /\ args' = args
       ELSE /\ args' = [args EXCEPT !.timeout =
                           IF @ = None THEN None ELSE Some(float(Get(@)))]
            /\ pc' = "authenticate"
            /\ result' = result
    /\ UNCHANGED <<metric_definitions, metric_properties, calls, series, value,
                   evaluated, perfdata>>

\* a network call: where it went, the $filter it carried, what came back
Call(endpoint, filter, response) ==
    [endpoint |-> endpoint, filter |-> filter, response |-> response]

\* the two outcomes of the token request
AuthResponses == { JsonBody([token |-> "t"]), HttpError(401, "invalid_client") }

\* ServicePrincipalCredentials(...) requests a token; ClientException -> UNKNOWN
Authenticate ==
    /\ pc = "authenticate"
    /\ \E resp \in AuthResponses :
          /\ calls' = Append(calls, Call("authenticate", None, resp))
          /\ IF resp.status = 200
             THEN pc' = "definitions" /\ result' = result
             ELSE /\ result' = nagios_exit("UNKNOWN", <<resp.message>>)
                  /\ pc' = "done"
    /\ UNCHANGED <<args, metric_definitions, metric_properties, series, value,
                   evaluated, perfdata>>

\* self._metric_definitions = self._get_metric_definitions(), CloudError -> UNKNOWN
GetMetricDefinitions ==
    /\ pc = "definitions"
    /\ \E resp \in DefinitionsResponses :
          LET r == _get_metric_definitions(resp) IN
          /\ calls' = Append(calls, Call("metricDefinitions", None, resp))
          /\ IF r.raised = "CloudError"
             THEN /\ result' = cloud_error_exit(r.message)
                  /\ pc' = "done"
                  /\ metric_definitions' = metric_definitions
             ELSE IF r.raised # ""
             THEN /\ result' = unhandled(r.raised)
                  /\ pc' = "done"
                  /\ metric_definitions' = metric_definitions
             ELSE /\ metric_definitions' = Some(r.list)
                  /\ pc' = "resolve"
                  /\ result' = result
    /\ UNCHANGED <<args, metric_properties, series, value, evaluated, perfdata>>

----------------------------------------------------------------------------
(* activate(): the metric and its dimension against the catalog *)

metric_ids(defs) == [i \in DOMAIN defs |-> defs[i].name.value]

\* _get_metric_properties: the first definition named self['metric'], or None
_get_metric_properties(defs, metric) ==
    IF \E i \in DOMAIN defs : defs[i].name.value = metric
    THEN Some(defs[CHOOSE i \in DOMAIN defs :
                      /\ defs[i].name.value = metric
                      /\ \A j \in 1..(i - 1) : defs[j].name.value # metric])
    ELSE None

dimension_ids(props) == [i \in DOMAIN props.dimensions |-> props.dimensions[i].value]

InSeq(x, s) == \E i \in DOMAIN s : s[i] = x

_is_dimension_required(props) == props.isDimensionRequired

\* variant: the required-dimension check left out
dimension_error_unknown_only(a, props) ==
    IF a.dimension # None /\ ~InSeq(Get(a.dimension), dimension_ids(props))
    THEN Some(<<"Unknown dimension ", Get(a.dimension), " for metric ", a.metric,
                ". Supported dimensions are: ">> \o dimension_ids(props))
    ELSE None

\* the usage error of lines 145-154 for the resolved metric, or None
dimension_error(a, props) ==
    IF _is_dimension_required(props) /\ a.dimension = None
    THEN Some(<<"Dimension required for metric ", a.metric,
                ". Supported dimensions are: ">> \o dimension_ids(props))
    ELSE IF a.dimension # None /\ ~InSeq(Get(a.dimension), dimension_ids(props))
    THEN Some(<<"Unknown dimension ", Get(a.dimension), " for metric ", a.metric,
                ". Supported dimensions are: ">> \o dimension_ids(props))
    ELSE None

ResolveMetric ==
    /\ pc = "resolve"
    /\ LET defs == Get(metric_definitions)
           props == _get_metric_properties(defs, args.metric)
       IN
       IF ~InSeq(args.metric, metric_ids(defs))
       THEN /\ result' = parser_error(
                   <<"Unknown metric ", args.metric,
                     " for specified resource. Supported metrics are: ">>
                   \o metric_ids(defs))
            /\ pc' = "done"
            /\ metric_properties' = metric_properties
       ELSE /\ metric_properties' = props
            /\ LET err == dimension_error(args, Get(props)) IN
               IF err # None
               THEN result' = parser_error(Get(err)) /\ pc' = "done"
               ELSE result' = result /\ pc' = "metric_value"
    /\ UNCHANGED <<args, metric_definitions, calls, series, value, evaluated,
                   perfdata>>

----------------------------------------------------------------------------
(* _get_metric_value *)

\* query['$filter'] of the metrics request
metric_filter(a) ==
    IF a.dimension # None
    THEN Some(<<Get(a.dimension), " eq '",
                IF a.dimension_value = None THEN "None" ELSE Get(a.dimension_value),
                "'">>)
    ELSE None

\* latest point at or before position i that carries the key: its value
\* under the key (None for a JSON null); None when the loop falls through
RECURSIVE scan_backward(_, _, _)
scan_backward(data, key, i) ==
    IF i = 0 THEN None
    ELSE IF key \in DOMAIN data[i] THEN data[i][key]
    ELSE scan_backward(data, key, i - 1)

\* variant: only the newest point is looked at
latest_value_newest_only(metric_values, props) ==
    IF metric_values = <<>> THEN None
    ELSE LET data == metric_values[1].data
             key == lower(props.primaryAggregationType)
         IN IF data # <<>> /\ key \in DOMAIN data[Len(data)]
            THEN data[Len(data)][key]
            ELSE None

\* lines 204-211
latest_value(metric_values, props) ==
    IF metric_values = <<>> THEN None
    ELSE scan_backward(metric_values[1].data,
                       lower(props.primaryAggregationType),
                       Len(metric_values[1].data))

\* lines 192-202: the call and metric_values['value'][0]['timeseries']
metric_timeseries(resp) ==
    LET r == _call_arm_rest_api(resp) IN
    IF r.raised # "" THEN [raised |-> r.raised, message |-> r.message, list |-> <<>>]
    ELSE IF ~r.isdict THEN [raised |-> "TypeError", message |-> "", list |-> <<>>]
    ELSE IF Get(r.dict).value = <<>>
    THEN [raised |-> "IndexError", message |-> "", list |-> <<>>]
    ELSE [raised |-> "", message |-> "", list |-> Get(r.dict).value[1].timeseries]

GetMetricValue ==
    /\ pc = "metric_value"
    /\ \E resp \in MetricsResponses :
          LET r == metric_timeseries(resp) IN
          /\ calls' = Append(calls, Call("metrics", metric_filter(args), resp))
          /\ IF r.raised = "CloudError"
             THEN /\ result' = cloud_error_exit(r.message)
                  /\ pc' = "done"
                  /\ UNCHANGED <<series, value>>
             ELSE IF r.raised # ""
             THEN /\ result' = unhandled(r.raised)
                  /\ pc' = "done"
                  /\ UNCHANGED <<series, value>>
             ELSE /\ series' = Some(r.list)
                  /\ value' = latest_value(r.list, Get(metric_properties))
                  /\ pc' = "check"
                  /\ result' = result
    /\ UNCHANGED <<args, metric_definitions, metric_properties, evaluated,
                   perfdata>>

----------------------------------------------------------------------------
(* pynag.Plugins.check_threshold and check_range *)

Position(s, tok) ==
    IF InSeq(tok, s) THEN CHOOSE i \in DOMAIN s : s[i] = tok /\ \A j \in 1..(i - 1) : s[j] # tok
    ELSE 0

\* TRUE iff v is inside the range (no alert)
RECURSIVE check_range(_, _)
check_range(v, range) ==
    IF range = <<>> THEN TRUE
    ELSE IF range[1] = "@" THEN ~check_range(v, Tail(range))
    ELSE LET colon == Position(range, ":")
             start == IF colon = 0 THEN <<>> ELSE SubSeq(range, 1, colon - 1)
             end == IF colon = 0 THEN range ELSE SubSeq(range, colon + 1, Len(range))
         IN /\ ~(start = <<>> /\ v < 0)
            /\ ~(start # <<>> /\ start # <<"~">> /\ v < float(start[1]))
            /\ ~(end # <<>> /\ end # <<"~">> /\ v > float(end[1]))

check_threshold(v, warning, critical) ==
    IF critical # None /\ ~check_range(v, Get(critical)) THEN "CRITICAL"
    ELSE IF warning # None /\ ~check_range(v, Get(warning)) THEN "WARNING"
    ELSE "OK"

----------------------------------------------------------------------------
(* check_metric *)

\* str(value) in the message
str(v) == CASE v = 0 - 1 -> "-1"
            [] v = 9 -> "9"
            [] v = 10 -> "10"
            [] v = 20 -> "20"
            [] v = 21 -> "21"

\* variant: the dimension is never named
no_value_message_without_dimension(a) ==
    <<"No value available for metric ", a.metric>>

no_value_message(a) ==
    <<"No value available for metric ", a.metric>>
    \o (IF a.dimension # None THEN <<" and dimension ", Get(a.dimension)>> ELSE <<>>)

\* variant: warning and critical passed the wrong way round
threshold_status_swapped(v, a) == check_threshold(v, a.critical, a.warning)

\* Plugins.check_threshold(value, warning=self['warning'], critical=self['critical'])
threshold_status(v, a) == check_threshold(v, a.warning, a.critical)

\* _AZURE_METRICS_UNIT_SYMBOLS.get(unit)
unit_symbol(unit) ==
    CASE unit = "Percent" -> Some("%")
      [] unit = "Bytes" -> Some("B")
      [] unit = "Seconds" -> Some("s")
      [] OTHER -> None

value_message(props, v) ==
    <<props.name.localizedValue, " ", str(v), " ", lower(props.unit)>>

CheckMetric ==
    /\ pc = "check"
    /\ pc' = "done"
    /\ IF value = None
       THEN /\ result' = nagios_exit("UNKNOWN", no_value_message(args))
            /\ UNCHANGED <<evaluated, perfdata>>
       ELSE LET props == Get(metric_properties)
                v == Get(value)
            IN /\ evaluated' = TRUE
               /\ perfdata' = Append(perfdata,
                      [label |-> props.name.value, value |-> v,
                       uom |-> unit_symbol(props.unit),
                       warn |-> args.warning, crit |-> args.critical])
               /\ result' = nagios_exit(threshold_status(v, args),
                                        value_message(props, v))
    /\ UNCHANGED <<args, metric_definitions, metric_properties, calls, series,
                   value>>

----------------------------------------------------------------------------
(* The run *)

Init ==
    /\ args \in Args
    /\ pc = "activate"
    /\ metric_definitions = None
    /\ metric_properties = None
    /\ calls = <<>>
    /\ series = None
    /\ value = None
    /\ evaluated = FALSE
    /\ perfdata = <<>>
    /\ result = Running

Next ==
    \/ Activate
    \/ Authenticate
    \/ GetMetricDefinitions
    \/ ResolveMetric
    \/ GetMetricValue
    \/ CheckMetric

Spec == Init /\ [][Next]_vars

----------------------------------------------------------------------------
(* Vocabulary of the properties *)

Max(S) == CHOOSE x \in S : \A y \in S : y <= x

Terminated == pc = "done"

MetricsCalls == { i \in DOMAIN calls : calls[i].endpoint = "metrics" }

EndpointCalls ==
    { i \in DOMAIN calls : calls[i].endpoint \in {"metricDefinitions", "metrics"} }

\* the response of call i carries a non-success HTTP status
NonSuccess(i) ==
    /\ calls[i].response.kind = "response"
    /\ calls[i].response.status \notin 200..299

\* exactly one of dimension name and dimension value was given on the command line
OnlyOneDimensionArgument == (args.dimension = None) # (args.dimension_value = None)

MismatchError ==
    /\ result.kind = "usage"
    /\ result.message = <<"--dimension and --dimension-value must be used together">>

\* the metrics call answered with a (possibly empty) list of time series
SeriesFetched == series # None

FirstData == Get(series)[1].data

\* the key the scan looks for: the primary aggregation type in lower case
AggregationKey ==
    IF Get(metric_properties).primaryAggregationType = "Average"
    THEN "average" ELSE "total"

\* positions of the first sub-series whose point carries the key
Carriers == { i \in DOMAIN FirstData : AggregationKey \in DOMAIN FirstData[i] }

\* positions whose point holds a number (not null) under the key
NonNullCarriers == { i \in Carriers : FirstData[i][AggregationKey] # None }

\* does threshold spec t alert on v, by the range syntax
Fires(t, v) ==
    CASE t = None -> FALSE
      [] t = Some(<<"10">>) -> v < 0 \/ v > 10
      [] t = Some(<<"10", ":", "20">>) -> v < 10 \/ v > 20
      [] t = Some(<<"@", "10", ":", "20">>) -> ~(v < 10 \/ v > 20)
      [] t = Some(<<"~", ":", "20">>) -> v > 20
      [] t = Some(<<"10", ":">>) -> v < 10

ExpectedStatus(v) ==
    IF Fires(args.critical, v) THEN "CRITICAL"
    ELSE IF Fires(args.warning, v) THEN "WARNING"
    ELSE "OK"

ExpectedExitCode(status) ==
    CASE status = "OK" -> 0
      [] status = "WARNING" -> 1
      [] status = "CRITICAL" -> 2
      [] status = "UNKNOWN" -> 3

----------------------------------------------------------------------------
(* The claims *)

\* C1: whatever the two remote calls answer, the run ends in a report (one of
\* OK, WARNING, CRITICAL, UNKNOWN) or a usage error, never in an unhandled fault.
C1_NoUnhandledFault ==
    (Terminated /\ EndpointCalls # {}) =>
        /\ result.kind \in {"report", "usage"}
        /\ result.kind = "report" =>
               result.status \in {"OK", "WARNING", "CRITICAL", "UNKNOWN"}

\* C2: when some point of the first sub-series carries the aggregation key, the
\* value fetched is the one stored under the key in the newest such point; a
\* newest-carried value of 21 under critical "10" is reported CRITICAL.
C2_NewestCarryingPoint ==
    (SeriesFetched /\ Get(series) # <<>> /\ Carriers # {}) =>
        /\ value = FirstData[Max(Carriers)][AggregationKey]
        /\ (/\ Terminated
            /\ FirstData[Max(Carriers)][AggregationKey] = Some(21)
            /\ args.critical = Some(<<"10">>)) => result.status = "CRITICAL"

C2_Witness ==
    /\ Terminated
    /\ SeriesFetched
    /\ Get(series) # <<>>
    /\ Len(FirstData) = 2
    /\ AggregationKey = "average"
    /\ Carriers = {1}
    /\ FirstData[1]["average"] = Some(21)
    /\ args.critical = Some(<<"10">>)
    /\ result.status = "CRITICAL"

\* C3: an empty series list, an empty first sub-series, or one in which no point
\* carries the key ends the run in UNKNOWN with the 'No value available'
\* message, naming the dimension exactly when one is set, with no threshold
\* evaluation and no perfdata.
C3_NoDataIsUnknown ==
    (/\ Terminated
     /\ SeriesFetched
     /\ (Get(series) = <<>> \/ FirstData = <<>> \/ Carriers = {})) =>
        /\ result.kind = "report"
        /\ result.status = "UNKNOWN"
        /\ result.message =
              IF args.dimension = None
              THEN <<"No value available for metric ", args.metric>>
              ELSE <<"No value available for metric ", args.metric,
                     " and dimension ", Get(args.dimension)>>
        /\ ~evaluated
        /\ perfdata = <<>>

C3_Witness ==
    /\ Terminated
    /\ SeriesFetched
    /\ Get(series) # <<>>
    /\ FirstData # <<>>
    /\ Carriers = {}
    /\ args.dimension # None
    /\ result.status = "UNKNOWN"
    /\ Len(result.message) = 4

\* C4: with a valid resource id, activate() fails with the dimension-argument
\* mismatch error if exactly one of dimension name and value is supplied, and
\* does not raise it if both or neither are supplied.
C4_OneArgumentAlwaysMismatch ==
    (pc # "activate" /\ is_valid_resource_id(args.resource)) =>
        (OnlyOneDimensionArgument <=> MismatchError)

\* C5: the metrics endpoint is called only after the definitions were fetched,
\* the metric was found, a required dimension was supplied and a supplied
\* dimension is one of the metric's; a required dimension not supplied ends the
\* run in the usage error listing the metric's dimensions, with no metrics call.
C5_MetricsCallOnlyWhenResolved ==
    /\ \A i \in MetricsCalls :
          /\ \E j \in 1..(i - 1) :
                /\ calls[j].endpoint = "metricDefinitions"
                /\ calls[j].response.status = 200
                /\ calls[j].response.json
          /\ metric_definitions # None
          /\ InSeq(args.metric, metric_ids(Get(metric_definitions)))
          /\ metric_properties # None
          /\ Get(metric_properties).name.value = args.metric
          /\ Get(metric_properties).isDimensionRequired => args.dimension # None
          /\ args.dimension # None =>
                InSeq(Get(args.dimension), dimension_ids(Get(metric_properties)))
    /\ (/\ metric_properties # None
        /\ Get(metric_properties).isDimensionRequired
        /\ args.dimension = None) =>
          /\ Terminated
          /\ result.kind = "usage"
          /\ result.message =
                <<"Dimension required for metric ", args.metric,
                  ". Supported dimensions are: ">>
                \o dimension_ids(Get(metric_properties))
          /\ MetricsCalls = {}

C5_Witness ==
    /\ Terminated
    /\ metric_properties # None
    /\ Get(metric_properties).isDimensionRequired
    /\ args.dimension = None
    /\ result.kind = "usage"
    /\ MetricsCalls = {}

\* C6: a malformed resource id, or exactly one of dimension name and value
\* supplied, ends the run in a usage error before any network call.
C6_InvalidInputBeforeAnyCall ==
    (/\ pc # "activate"
     /\ (~is_valid_resource_id(args.resource) \/ OnlyOneDimensionArgument)) =>
        /\ Terminated
        /\ result.kind = "usage"
        /\ calls = <<>>

\* C7: a non-success HTTP status from either endpoint ends the run at that call
\* in UNKNOWN (exit code 3) with the server's message; no later call is made,
\* no threshold is evaluated and no perfdata is emitted.
C7_HttpErrorIsUnknown ==
    \A i \in EndpointCalls :
        NonSuccess(i) =>
            /\ i = Len(calls)
            /\ Terminated
            /\ result.kind = "report"
            /\ result.status = "UNKNOWN"
            /\ result.code = 3
            /\ result.message = <<calls[i].response.message>>
            /\ ~evaluated
            /\ perfdata = <<>>

C7_Witness ==
    /\ Terminated
    /\ MetricsCalls # {}
    /\ NonSuccess(Len(calls))
    /\ calls[Len(calls)].response.status = 404
    /\ result.status = "UNKNOWN"

\* C8: for a fetched number the status is CRITICAL if the critical spec fires,
\* else WARNING if the warning spec fires, else OK, by the range syntax, and
\* the exit code is 0, 1, 2 for OK, WARNING, CRITICAL.
C8_ThresholdStatus ==
    (Terminated /\ value # None) =>
        /\ evaluated
        /\ result.kind = "report"
        /\ result.status = ExpectedStatus(Get(value))
        /\ result.code = ExpectedExitCode(result.status)

C8_Witness ==
    /\ Terminated
    /\ value = Some(21)
    /\ args.warning = Some(<<"10">>)
    /\ args.critical = Some(<<"10", ":", "20">>)
    /\ result.status = "CRITICAL"
    /\ result.code = 2

\* C9: whenever the metrics endpoint is queried, a dimension name is present
\* iff a dimension value is present iff the name is one of the metric's
\* dimensions, and the filter "<name> eq '<value>'" is sent exactly then.
C9_MetricQueryInvariant ==
    \A i \in MetricsCalls :
        LET named == args.dimension # None
            valued == args.dimension_value # None
            member == /\ named
                      /\ InSeq(Get(args.dimension),
                               dimension_ids(Get(metric_properties)))
        IN /\ named <=> valued
           /\ named <=> member
           /\ calls[i].filter =
                 IF named /\ valued
                 THEN Some(<<Get(args.dimension), " eq '",
                             Get(args.dimension_value), "'">>)
                 ELSE None

\* C10: a point holding null under the key is skipped like a point without the
\* key: the value fetched is that of the newest point holding a number under
\* the key and is evaluated; UNKNOWN only when no point holds a number.
C10_NullPointsAreSkipped ==
    (SeriesFetched /\ Get(series) # <<>>) =>
        IF NonNullCarriers # {}
        THEN /\ value = FirstData[Max(NonNullCarriers)][AggregationKey]
             /\ Terminated => evaluated
        ELSE /\ value = None
             /\ Terminated => result.status = "UNKNOWN"

====
